---- MODULE Spec2Model ----
(***************************************************************************)
(* Model of IPython/html/base/handlers.py, the base Tornado handlers of    *)
(* the notebook server.                                                    *)
(*                                                                         *)
(* Python strings are modelled as sequences of one-character strings, so   *)
(* that startswith, rstrip, split and join are computed and not assumed.   *)
(* Each handler family has its own specification (SpecStatic, ...); the    *)
(* variables of the other families stay at their initial value.            *)
(***************************************************************************)
EXTENDS Integers, Sequences, FiniteSets, TLC

(***************************************************************************)
(* Strings                                                                 *)
(***************************************************************************)
sep == "/"

Empty == << >>

StartsWith(s, prefix) ==
    /\ Len(prefix) <= Len(s)
    /\ SubSeq(s, 1, Len(prefix)) = prefix

EndsWith(s, suffix) ==
    /\ Len(suffix) <= Len(s)
    /\ SubSeq(s, Len(s) - Len(suffix) + 1, Len(s)) = suffix

RECURSIVE RStrip(_, _)
RStrip(s, c) ==
    IF s # Empty /\ s[Len(s)] = c THEN RStrip(SubSeq(s, 1, Len(s) - 1), c) ELSE s

RECURSIVE SplitRec(_, _, _, _)
SplitRec(s, c, cur, acc) ==
    IF s = Empty THEN Append(acc, cur)
    ELSE IF Head(s) = c THEN SplitRec(Tail(s), c, Empty, Append(acc, cur))
    ELSE SplitRec(Tail(s), c, Append(cur, Head(s)), acc)

Split(s, c) == SplitRec(s, c, Empty, << >>)

RECURSIVE Join(_, _)
Join(parts, c) ==
    IF parts = << >> THEN Empty
    ELSE IF Len(parts) = 1 THEN parts[1]
    ELSE parts[1] \o <<c>> \o Join(Tail(parts), c)

IndexOf(seq, x) ==
    IF \E i \in 1..Len(seq) : seq[i] = x
    THEN CHOOSE i \in 1..Len(seq) : seq[i] = x /\ \A j \in 1..(i - 1) : seq[j] # x
    ELSE 0

RemoveAt(seq, i) == SubSeq(seq, 1, i - 1) \o SubSeq(seq, i + 1, Len(seq))

Contains(seq, x) == \E i \in 1..Len(seq) : seq[i] = x

(***************************************************************************)
(* State                                                                   *)
(***************************************************************************)
VARIABLES
    \* FileFindHandler (SpecStatic)
    static_paths,       \* FileFindHandler._static_paths: requested path -> abspath
    lock,               \* holder of cls._lock, 0 when free
    root,               \* handler -> self.root, as set by initialize
    appends_sep,        \* whether the installed tornado re-appends the separator
    pc,                 \* caller -> position in StaticFileHandler.get
    req,                \* caller -> [handler, path] being served
    absolute_path,      \* caller -> value returned by get_absolute_path
    result,             \* caller -> outcome of validate_absolute_path
    searches,           \* requested path -> number of filefind calls made for it
    completed,          \* requested paths for which a get_absolute_path call returned
    ncalls,             \* number of requests started
    \* AuthenticatedHandler (SpecAuth)
    password,           \* settings['password']
    cookie_name_setting,\* settings.get('cookie_name'), None when not configured
    jar,                \* the browser's cookies: name -> cookie
    auth_pc,            \* position of the request being handled
    auth_host,          \* request.host
    cookie_read,        \* what get_secure_cookie returned
    user,               \* what get_current_user returned
    cleared,            \* whether clear_login_cookie ran during the request
    \* AuthenticatedFileHandler (SpecContents)
    cf_store,           \* the files the contents manager holds
    cf_password,        \* settings['password']
    cf_cookie,          \* what get_secure_cookie returns for the request
    cf_pc,              \* position of the request being handled
    cf_path,            \* the path argument of get
    cf_headers,         \* response headers set so far
    cf_body,            \* chunks written to the response
    cf_status,          \* response status
    cf_flushed,         \* whether flush ran
    \* IPythonHandler.set_default_headers (SpecCors)
    settings_headers,   \* settings.get('headers'): whether configured, and the dict
    allow_origin,       \* settings.get('allow_origin', '')
    allow_origin_pat,   \* settings.get('allow_origin_pat', None)
    allow_credentials,  \* settings.get('allow_credentials', False)
    rejects,            \* whether the connection's set_header raises (a websocket)
    request_headers,    \* the request's headers
    response_headers,   \* the response's headers
    cors_pc,            \* position of the request being handled
    \* json_errors (SpecJson)
    je_outcome,         \* what the wrapped method does: return or raise
    je_status,          \* response status
    je_status_set,      \* number of set_status calls
    je_finished,        \* number of finish calls
    je_body,            \* chunks handed to finish
    je_returned,        \* what the wrapper returned
    je_log,             \* records of the application log
    je_pc,              \* position of the call
    \* IPythonHandler.write_error (SpecError)
    we_templates,       \* names of the templates the jinja2 environment holds
    we_cookie,          \* what get_secure_cookie returns for the request
    we_password,        \* settings['password']
    we_status_code,     \* status_code argument
    we_exc_info,        \* kwargs.get('exc_info')
    we_headers,         \* response headers
    we_written,         \* pages written to the response
    we_raised,          \* the exception write_error raised, None if none
    we_pc,              \* position of the call
    \* FilesRedirectHandler (SpecRedirect)
    cm_files,           \* the files the contents manager holds
    cm_dirs,            \* the directories it holds besides the parents of its files
    fr_path,            \* the path argument of get
    fr_result,          \* the redirect or the error that get produced
    fr_warnings,        \* paths logged as deprecated files/ URLs
    fr_pc,              \* position of the request being handled
    \* TrailingSlashHandler (SpecSlash)
    ts_uri,             \* request.uri of the request being handled
    ts_location,        \* the URL the handler redirected to
    ts_hops,            \* redirects the client has followed
    ts_pc               \* position of the request being handled

staticVars == <<static_paths, lock, root, appends_sep, pc, req, absolute_path,
                result, searches, completed, ncalls>>

authVars == <<password, cookie_name_setting, jar, auth_pc, auth_host, cookie_read,
              user, cleared>>

contentsVars == <<cf_store, cf_password, cf_cookie, cf_pc, cf_path, cf_headers,
                  cf_body, cf_status, cf_flushed>>

corsVars == <<settings_headers, allow_origin, allow_origin_pat, allow_credentials,
              rejects, request_headers, response_headers, cors_pc>>

jsonVars == <<je_outcome, je_status, je_status_set, je_finished, je_body,
              je_returned, je_log, je_pc>>

errorVars == <<we_templates, we_cookie, we_password, we_status_code, we_exc_info,
               we_headers, we_written, we_raised, we_pc>>

redirectVars == <<cm_files, cm_dirs, fr_path, fr_result, fr_warnings, fr_pc>>

slashVars == <<ts_uri, ts_location, ts_hops, ts_pc>>

vars == <<staticVars, authVars, contentsVars, corsVars, jsonVars, errorVars,
          redirectVars, slashVars>>

\* what the handlers of one family leave alone
nonStatic ==
    <<authVars, contentsVars, corsVars, jsonVars,
      errorVars, redirectVars, slashVars>>
nonAuth ==
    <<staticVars, contentsVars, corsVars, jsonVars,
      errorVars, redirectVars, slashVars>>
nonContents ==
    <<staticVars, authVars, corsVars, jsonVars,
      errorVars, redirectVars, slashVars>>
nonCors ==
    <<staticVars, authVars, contentsVars, jsonVars,
      errorVars, redirectVars, slashVars>>
nonJson ==
    <<staticVars, authVars, contentsVars, corsVars,
      errorVars, redirectVars, slashVars>>
nonError ==
    <<staticVars, authVars, contentsVars, corsVars,
      jsonVars, redirectVars, slashVars>>
nonRedirect ==
    <<staticVars, authVars, contentsVars, corsVars,
      jsonVars, errorVars, slashVars>>
nonSlash ==
    <<staticVars, authVars, contentsVars, corsVars,
      jsonVars, errorVars, redirectVars>>

(***************************************************************************)
(* The filesystem, which does not change while the server runs             *)
(***************************************************************************)
Files == { <<"/", "r", "/", "f">>,
           <<"/", "r", "e", "/", "f">>,
           <<"/", "s", "/", "g">> }

isfile(p) == p \in Files

\* os.path.exists: a file, or a directory holding one
exists(p) == \E f \in Files : f = p \/ StartsWith(f, p \o <<sep>>) \/ p = <<sep>>

RECURSIVE NormRec(_, _)
NormRec(parts, acc) ==
    IF parts = << >> THEN acc
    ELSE LET h == Head(parts) IN
         IF h = Empty \/ h = <<".">> THEN NormRec(Tail(parts), acc)
         ELSE IF h = <<".", ".">>
              THEN NormRec(Tail(parts),
                           IF acc = << >> THEN acc ELSE SubSeq(acc, 1, Len(acc) - 1))
              ELSE NormRec(Tail(parts), Append(acc, h))

\* os.path.abspath of an absolute POSIX path: normpath
abspath(p) == <<sep>> \o Join(NormRec(Split(p, sep), << >>), sep)

\* os.path.expanduser
expanduser(p) == IF p # Empty /\ Head(p) = "~" THEN <<"/", "s">> \o Tail(p) ELSE p

(***************************************************************************)
(* FileFindHandler                                                         *)
(***************************************************************************)
Handlers == {"h1", "h2"}

NumCallers == 2
MaxCalls == 3
Callers == 1..NumCallers

\* the `path` argument of the URL specs: a string or a list of strings
PathConfigs ==
    { [is_string |-> TRUE,  value |-> <<"/", "r">>],
      [is_string |-> FALSE, value |-> << <<"/", "r", "e", "/">> >>],
      [is_string |-> FALSE, value |-> << <<"~">>, <<"/", "r">> >>] }

\* the relative paths clients request
Requests == { <<"f">>, <<"g">>, <<"x">>, <<".", ".", "/", "r", "e", "/", "f">> }

NotFound == Empty

IOError == <<"IOError">>

initialize(path) ==
    LET paths == IF path.is_string THEN <<path.value>> ELSE path.value
    IN  [i \in 1..Len(paths) |-> abspath(expanduser(paths[i])) \o <<sep>>]

\* IPython.utils.path.filefind: search the roots in order, first match wins
filefind(path, roots) ==
    LET hits == {i \in 1..Len(roots) : isfile(abspath(roots[i] \o path))}
    IN  IF hits = {} THEN IOError
        ELSE roots[CHOOSE i \in hits : \A j \in hits : i <= j] \o path

\* the root the for loop of validate_absolute_path leaves in `root`
LoopRoot(self_root, param, abs) ==
    LET hits == {i \in 1..Len(self_root) : StartsWith(abs \o <<sep>>, self_root[i])}
    IN  IF hits # {} THEN self_root[CHOOSE i \in hits : \A j \in hits : i <= j]
        ELSE IF self_root = << >> THEN param
        ELSE self_root[Len(self_root)]

HTTPError(code) == [status |-> code, path |-> Empty]
NoResult == [status |-> 0, path |-> Empty]

\* tornado's StaticFileHandler.validate_absolute_path, reached through super
StaticFileHandler_validate_absolute_path(rt, abs, keep) ==
    LET r0 == abspath(rt)
        r  == IF keep /\ ~EndsWith(r0, <<sep>>) THEN r0 \o <<sep>> ELSE r0
    IN  IF ~StartsWith(abs \o <<sep>>, r) THEN HTTPError(403)
        ELSE IF ~exists(abs) THEN HTTPError(404)
        ELSE IF ~isfile(abs) THEN HTTPError(403)
        ELSE [status |-> 200, path |-> abs]

validate_absolute_path(self_root, param, abs, keep) ==
    IF abs = NotFound THEN HTTPError(404)
    ELSE StaticFileHandler_validate_absolute_path(LoopRoot(self_root, param, abs), abs, keep)

StaticInit ==
    /\ static_paths = [p \in {} |-> Empty]
    /\ lock = 0
    /\ root \in [Handlers -> {initialize(c) : c \in PathConfigs}]
    /\ appends_sep \in BOOLEAN
    /\ pc = [c \in Callers |-> "idle"]
    /\ req = [c \in Callers |-> [handler |-> "h1", path |-> Empty]]
    /\ absolute_path = [c \in Callers |-> Empty]
    /\ result = [c \in Callers |-> NoResult]
    /\ searches = [p \in Requests |-> 0]
    /\ completed = {}
    /\ ncalls = 0

\* StaticFileHandler.get reaches cls.get_absolute_path(self.root, self.path)
StartRequest(c, h, p) ==
    /\ pc[c] = "idle"
    /\ ncalls < MaxCalls
    /\ ncalls' = ncalls + 1
    /\ req' = [req EXCEPT ![c] = [handler |-> h, path |-> p]]
    /\ absolute_path' = [absolute_path EXCEPT ![c] = Empty]
    /\ result' = [result EXCEPT ![c] = NoResult]
    /\ pc' = [pc EXCEPT ![c] = "acquire"]
    /\ UNCHANGED <<static_paths, lock, root, appends_sep, searches, completed>>
    /\ UNCHANGED nonStatic

\* with cls._lock:
AcquireLock(c) ==
    /\ pc[c] = "acquire"
    /\ lock = 0
    /\ lock' = c
    /\ pc' = [pc EXCEPT ![c] = "lookup"]
    /\ UNCHANGED <<static_paths, root, appends_sep, req, absolute_path, result,
                   searches, completed, ncalls>>
    /\ UNCHANGED nonStatic

\* if path in cls._static_paths: return cls._static_paths[path]
CacheLookup(c) ==
    /\ pc[c] = "lookup"
    /\ lock = c
    /\ IF req[c].path \in DOMAIN static_paths
       THEN /\ absolute_path' = [absolute_path EXCEPT ![c] = static_paths[req[c].path]]
            /\ lock' = 0
            /\ completed' = completed \cup {req[c].path}
            /\ pc' = [pc EXCEPT ![c] = "validate"]
       ELSE /\ pc' = [pc EXCEPT ![c] = "search"]
            /\ UNCHANGED <<absolute_path, lock, completed>>
    /\ UNCHANGED <<static_paths, root, appends_sep, req, result, searches, ncalls>>
    /\ UNCHANGED nonStatic

\* the try block, the IOError handler and the cache store
Search(c) ==
    /\ pc[c] = "search"
    /\ lock = c
    /\ LET path  == req[c].path
           found == filefind(path, root[req[c].handler])
       IN  /\ searches' = [searches EXCEPT ![path] = @ + 1]
           /\ IF found = IOError
              THEN /\ absolute_path' = [absolute_path EXCEPT ![c] = NotFound]
                   /\ UNCHANGED static_paths
              ELSE /\ static_paths' =
                         [q \in DOMAIN static_paths \cup {path} |->
                             IF q = path THEN abspath(found) ELSE static_paths[q]]
                   /\ absolute_path' = [absolute_path EXCEPT ![c] = abspath(found)]
           /\ completed' = completed \cup {path}
    /\ lock' = 0
    /\ pc' = [pc EXCEPT ![c] = "validate"]
    /\ UNCHANGED <<root, appends_sep, req, result, ncalls>>
    /\ UNCHANGED nonStatic

\* StaticFileHandler.get then calls self.validate_absolute_path(self.root, absolute_path)
Validate(c) ==
    /\ pc[c] = "validate"
    /\ result' = [result EXCEPT ![c] =
                    validate_absolute_path(root[req[c].handler], root[req[c].handler],
                                           absolute_path[c], appends_sep)]
    /\ pc' = [pc EXCEPT ![c] = "done"]
    /\ UNCHANGED <<static_paths, lock, root, appends_sep, req, absolute_path,
                   searches, completed, ncalls>>
    /\ UNCHANGED nonStatic

\* the response is finished and the caller may issue another request
Finish(c) ==
    /\ pc[c] = "done"
    /\ pc' = [pc EXCEPT ![c] = "idle"]
    /\ UNCHANGED <<static_paths, lock, root, appends_sep, req, absolute_path, result,
                   searches, completed, ncalls>>
    /\ UNCHANGED nonStatic

StaticNext ==
    \/ \E c \in Callers, h \in Handlers, p \in Requests : StartRequest(c, h, p)
    \/ \E c \in Callers : AcquireLock(c)
    \/ \E c \in Callers : CacheLookup(c)
    \/ \E c \in Callers : Search(c)
    \/ \E c \in Callers : Validate(c)
    \/ \E c \in Callers : Finish(c)

\* the FileFindHandler state of a server that serves no static file
StaticOff ==
    /\ static_paths = [p \in {} |-> Empty]
    /\ lock = 0
    /\ root = [h \in Handlers |-> initialize([is_string |-> TRUE, value |-> <<"/", "r">>])]
    /\ appends_sep = FALSE
    /\ pc = [c \in Callers |-> "idle"]
    /\ req = [c \in Callers |-> [handler |-> "h1", path |-> Empty]]
    /\ absolute_path = [c \in Callers |-> Empty]
    /\ result = [c \in Callers |-> NoResult]
    /\ searches = [p \in Requests |-> 0]
    /\ completed = {}
    /\ ncalls = 0

(***************************************************************************)
(* AuthenticatedHandler                                                    *)
(***************************************************************************)
None == <<"None">>

anonymous == <<"a", "n", "o", "n", "y", "m", "o", "u", "s">>

\* Python truth of a string or None
Truthy(v) == v # None /\ v # Empty

\* non_alphanum.sub('-', s)
non_alphanum_sub(s) ==
    [i \in 1..Len(s) |->
        IF s[i] \in {"a", "b", "c", "e", "m", "n", "r", "s", "u", "8"} THEN s[i] ELSE "-"]

username_prefix == <<"u", "s", "e", "r", "n", "a", "m", "e", "-">>

cookie_name(host, setting) ==
    LET default_cookie_name == non_alphanum_sub(username_prefix \o host)
    IN  IF setting = None THEN default_cookie_name ELSE setting

login_available(pw) == Truthy(pw)

\* get_current_user without the empty-string check
get_current_user_keeps_empty(cookie_value, pw) ==
    IF cookie_value = None
    THEN [user_id |-> IF ~login_available(pw) THEN anonymous ELSE None,
          clear   |-> TRUE]
    ELSE [user_id |-> cookie_value, clear |-> FALSE]

\* get_current_user: the user id, and whether clear_login_cookie ran
get_current_user(cookie_value, pw) ==
    LET u1 == IF cookie_value = Empty THEN anonymous ELSE cookie_value
    IN  IF u1 = None
        THEN [user_id |-> IF ~login_available(pw) THEN anonymous ELSE None,
              clear   |-> TRUE]
        ELSE [user_id |-> u1, clear |-> FALSE]

\* the truth value of the logged_in property for a user id
logged_in(user_id) == Truthy(user_id) /\ ~(user_id = anonymous)

Hosts == { <<"a", ":", "8">>, <<"a", ".", "8">>, <<"b">> }

Passwords == { Empty, <<"s", "e", "c">> }

CookieNameSettings == { None, <<"c">> }

CookieNames == {cookie_name(h, st) : h \in Hosts, st \in CookieNameSettings}

NoCookie == [present |-> FALSE, signed |-> FALSE, value |-> Empty]

Cookies == {NoCookie} \cup [present : {TRUE}, signed : BOOLEAN, value : { Empty, <<"u", "1">> }]

\* tornado's get_secure_cookie: None unless a cookie with a valid signature is sent
get_secure_cookie(cookies, name) ==
    IF cookies[name].present /\ cookies[name].signed THEN cookies[name].value ELSE None

AuthInit ==
    /\ password \in Passwords
    /\ cookie_name_setting \in CookieNameSettings
    /\ jar = [n \in CookieNames |-> NoCookie]
    /\ auth_pc = "idle"
    /\ auth_host = <<"b">>
    /\ cookie_read = None
    /\ user = None
    /\ cleared = FALSE

AuthOff ==
    /\ password = Empty
    /\ cookie_name_setting = None
    /\ jar = [n \in CookieNames |-> NoCookie]
    /\ auth_pc = "idle"
    /\ auth_host = <<"b">>
    /\ cookie_read = None
    /\ user = None
    /\ cleared = FALSE

\* the browser stores a cookie: one the login handler signed, or a forged one
BrowserSetsCookie(n, ck) ==
    /\ auth_pc = "idle"
    /\ ck # NoCookie
    /\ jar' = [jar EXCEPT ![n] = ck]
    /\ UNCHANGED <<password, cookie_name_setting, auth_pc, auth_host, cookie_read,
                   user, cleared>>
    /\ UNCHANGED nonAuth

AuthRequest(h) ==
    /\ auth_pc = "idle"
    /\ auth_host' = h
    /\ auth_pc' = "handling"
    /\ cookie_read' = None
    /\ user' = None
    /\ cleared' = FALSE
    /\ UNCHANGED <<password, cookie_name_setting, jar>>
    /\ UNCHANGED nonAuth

GetCurrentUser ==
    /\ auth_pc = "handling"
    /\ LET name   == cookie_name(auth_host, cookie_name_setting)
           value  == get_secure_cookie(jar, name)
           answer == get_current_user(value, password)
       IN  /\ cookie_read' = value
           /\ user' = answer.user_id
           /\ cleared' = answer.clear
           \* clear_cookie makes the browser drop the cookie
           /\ jar' = IF answer.clear THEN [jar EXCEPT ![name] = NoCookie] ELSE jar
    /\ auth_pc' = "done"
    /\ UNCHANGED <<password, cookie_name_setting, auth_host>>
    /\ UNCHANGED nonAuth

AuthFinish ==
    /\ auth_pc = "done"
    /\ auth_pc' = "idle"
    /\ UNCHANGED <<password, cookie_name_setting, jar, auth_host, cookie_read, user,
                   cleared>>
    /\ UNCHANGED nonAuth

AuthNext ==
    \/ \E n \in CookieNames, ck \in Cookies : BrowserSetsCookie(n, ck)
    \/ \E h \in Hosts : AuthRequest(h)
    \/ GetCurrentUser
    \/ AuthFinish

(***************************************************************************)
(* AuthenticatedFileHandler                                                *)
(***************************************************************************)
ipynb == <<".", "i", "p", "y", "n", "b">>

\* files the contents manager may hold, as path/name
ContentsFiles ==
    { <<"n">>,
      <<"d", "/", "m">> \o ipynb,
      <<".", "h", "/", "n">>,
      <<"d", "/", ".", "s">> }

\* IPython.html.utils.is_hidden: some component of the path starts with a dot
is_hidden(path) ==
    LET parts == Split(path, sep)
    IN  \E i \in 1..Len(parts) : parts[i] # Empty /\ parts[i][1] = "."

\* str.rfind('/'), 0 standing for Python's -1 and i for Python's i - 1
rfind(s, c) ==
    IF \E i \in 1..Len(s) : s[i] = c
    THEN CHOOSE i \in 1..Len(s) : s[i] = c /\ \A j \in (i + 1)..Len(s) : s[j] # c
    ELSE 0

\* the name and parent path that get() derives from its path argument
SplitName(path) ==
    IF rfind(path, sep) > 0
    THEN [name |-> SubSeq(path, rfind(path, sep) + 1, Len(path)),
          path |-> SubSeq(path, 1, rfind(path, sep) - 1)]
    ELSE [name |-> path, path |-> Empty]

\* contents_manager.get_model(name, path)['content']; a missing file is a 404
get_model_content(store, name, path) ==
    LET full == IF path = Empty THEN name ELSE path \o <<sep>> \o name
    IN  IF full \in store THEN <<"content of", full>> ELSE None

NoHeaders == [h \in {} |-> Empty]

SetHeader(headers, name, value) ==
    [h \in DOMAIN headers \cup {name} |-> IF h = name THEN value ELSE headers[h]]

ContentsInit ==
    /\ cf_store \in SUBSET ContentsFiles
    /\ cf_password \in Passwords
    /\ cf_cookie \in {None, Empty, <<"u", "1">>}
    /\ cf_pc = "idle"
    /\ cf_path = Empty
    /\ cf_headers = NoHeaders
    /\ cf_body = << >>
    /\ cf_status = 200
    /\ cf_flushed = FALSE

ContentsOff ==
    /\ cf_store = {}
    /\ cf_password = Empty
    /\ cf_cookie = None
    /\ cf_pc = "idle"
    /\ cf_path = Empty
    /\ cf_headers = NoHeaders
    /\ cf_body = << >>
    /\ cf_status = 200
    /\ cf_flushed = FALSE

\* a GET is routed to the handler, which starts with an empty response
ContentsRequest(path) ==
    /\ cf_pc = "idle"
    /\ cf_path' = path
    /\ cf_headers' = NoHeaders
    /\ cf_body' = << >>
    /\ cf_status' = 200
    /\ cf_flushed' = FALSE
    /\ cf_pc' = "authenticate"
    /\ UNCHANGED <<cf_store, cf_password, cf_cookie>>
    /\ UNCHANGED nonContents

\* @web.authenticated: without a current user a GET is redirected to the login page
Authenticated ==
    /\ cf_pc = "authenticate"
    /\ IF Truthy(get_current_user(cf_cookie, cf_password).user_id)
       THEN /\ cf_pc' = "get"
            /\ UNCHANGED cf_status
       ELSE /\ cf_pc' = "done"
            /\ cf_status' = 302
    /\ UNCHANGED <<cf_store, cf_password, cf_cookie, cf_path, cf_headers, cf_body,
                   cf_flushed>>
    /\ UNCHANGED nonContents

\* AuthenticatedFileHandler.get
ContentsGet ==
    /\ cf_pc = "get"
    /\ LET sn      == SplitName(cf_path)
           h1      == IF EndsWith(sn.name, ipynb)
                      THEN SetHeader(cf_headers, "Content-Type", "application/json")
                      ELSE cf_headers
           h2      == SetHeader(h1, "Content-Disposition", <<"attachment; filename=", sn.name>>)
           content == get_model_content(cf_store, sn.name, sn.path)
       IN  IF content = None
           THEN \* the HTTPError of get_model: send_error drops what was set
                /\ cf_status' = 404
                /\ cf_headers' = NoHeaders
                /\ UNCHANGED <<cf_body, cf_flushed>>
           ELSE /\ cf_headers' = h2
                /\ cf_body' = Append(cf_body, content)
                /\ cf_flushed' = TRUE
                /\ UNCHANGED cf_status
    /\ cf_pc' = "done"
    /\ UNCHANGED <<cf_store, cf_password, cf_cookie, cf_path>>
    /\ UNCHANGED nonContents

ContentsFinish ==
    /\ cf_pc = "done"
    /\ cf_pc' = "idle"
    /\ UNCHANGED <<cf_store, cf_password, cf_cookie, cf_path, cf_headers, cf_body,
                   cf_status, cf_flushed>>
    /\ UNCHANGED nonContents

ContentsNext ==
    \/ \E path \in ContentsFiles \cup { <<"d", "/", "x">> } : ContentsRequest(path)
    \/ Authenticated
    \/ ContentsGet
    \/ ContentsFinish

(***************************************************************************)
(* IPythonHandler: CORS headers                                            *)
(***************************************************************************)
ACAO == "Access-Control-Allow-Origin"
ACAC == "Access-Control-Allow-Credentials"
XFO == "X-Frame-Options"

Origins == { <<"a">>, <<"a", "b">>, <<"e">> }

\* the dicts an operator may configure as settings['headers'], or none
HeaderSettings ==
    {[configured |-> FALSE, map |-> NoHeaders]}
        \cup {[configured |-> TRUE, map |-> m] :
                 m \in { NoHeaders,
                         [h \in {XFO} |-> <<"DENY">>],
                         [h \in {ACAO} |-> <<"*">>] }}

\* compiled patterns: a literal matched from the start of the string, up to its
\* end when anchored ('^a$'), as a prefix when not ('a'); '' matches every string
NoPattern == [configured |-> FALSE, literal |-> Empty, anchored |-> FALSE]

Patterns ==
    { NoPattern,
      [configured |-> TRUE, literal |-> <<"a">>, anchored |-> TRUE],
      [configured |-> TRUE, literal |-> <<"a">>, anchored |-> FALSE],
      [configured |-> TRUE, literal |-> Empty, anchored |-> FALSE] }

\* pattern.match(s)
match(pat, s) == IF pat.anchored THEN s = pat.literal ELSE StartsWith(s, pat.literal)

RequestHeaderSets ==
    { r \in UNION {[hs -> Origins \cup {Empty}] : hs \in SUBSET {"Origin", "Sec-Websocket-Origin"}} :
        TRUE }

get_origin(headers) ==
    IF "Origin" \in DOMAIN headers THEN headers["Origin"]
    ELSE IF "Sec-Websocket-Origin" \in DOMAIN headers THEN headers["Sec-Websocket-Origin"]
    ELSE None

\* the dict AuthenticatedHandler.set_default_headers iterates over
DefaultHeaders(setting) ==
    LET headers == IF setting.configured THEN setting.map ELSE NoHeaders
    IN  IF XFO \notin DOMAIN headers THEN SetHeader(headers, XFO, <<"SAMEORIGIN">>)
        ELSE headers

\* AuthenticatedHandler.set_default_headers: a set_header that raises is ignored
AuthenticatedHandler_set_default_headers(setting, response, reject) ==
    LET headers == DefaultHeaders(setting)
    IN  IF reject THEN response
        ELSE [h \in DOMAIN response \cup DOMAIN headers |->
                 IF h \in DOMAIN headers THEN headers[h] ELSE response[h]]

\* one self.set_header of IPythonHandler.set_default_headers, which is not guarded
TrySetHeader(state, name, value, reject) ==
    IF state.raised THEN state
    ELSE IF reject THEN [state EXCEPT !.raised = TRUE]
    ELSE [state EXCEPT !.headers = SetHeader(state.headers, name, value)]

\* set_default_headers echoing the request origin without matching it
IPythonHandler_set_default_headers_unmatched(setting, origin_cfg, pat, credentials, request, response, reject) ==
    LET s0 == [headers |-> AuthenticatedHandler_set_default_headers(setting, response, reject),
               raised  |-> FALSE]
        origin == get_origin(request)
        s1 == IF Truthy(origin_cfg) THEN TrySetHeader(s0, ACAO, origin_cfg, reject)
              ELSE IF pat.configured
                   THEN IF Truthy(origin)
                        THEN TrySetHeader(s0, ACAO, origin, reject)
                        ELSE s0
                   ELSE s0
    IN  IF credentials THEN TrySetHeader(s1, ACAC, <<"true">>, reject) ELSE s1

IPythonHandler_set_default_headers(setting, origin_cfg, pat, credentials, request, response, reject) ==
    LET s0 == [headers |-> AuthenticatedHandler_set_default_headers(setting, response, reject),
               raised  |-> FALSE]
        origin == get_origin(request)
        s1 == IF Truthy(origin_cfg) THEN TrySetHeader(s0, ACAO, origin_cfg, reject)
              ELSE IF pat.configured
                   THEN IF Truthy(origin) /\ match(pat, origin)
                        THEN TrySetHeader(s0, ACAO, origin, reject)
                        ELSE s0
                   ELSE s0
    IN  IF credentials THEN TrySetHeader(s1, ACAC, <<"true">>, reject) ELSE s1

CorsInit ==
    /\ settings_headers \in HeaderSettings
    /\ allow_origin \in {Empty, <<"a">>}
    /\ allow_origin_pat \in Patterns
    /\ allow_credentials \in BOOLEAN
    /\ rejects \in BOOLEAN
    /\ request_headers = NoHeaders
    /\ response_headers = NoHeaders
    /\ cors_pc = "idle"

CorsOff ==
    /\ settings_headers = [configured |-> FALSE, map |-> NoHeaders]
    /\ allow_origin = Empty
    /\ allow_origin_pat = NoPattern
    /\ allow_credentials = FALSE
    /\ rejects = FALSE
    /\ request_headers = NoHeaders
    /\ response_headers = NoHeaders
    /\ cors_pc = "idle"

\* a request arrives; its handler starts with an empty response
CorsRequest(headers) ==
    /\ cors_pc = "idle"
    /\ request_headers' = headers
    /\ response_headers' = NoHeaders
    /\ cors_pc' = "handling"
    /\ UNCHANGED <<settings_headers, allow_origin, allow_origin_pat, allow_credentials,
                   rejects>>
    /\ UNCHANGED nonCors

SetDefaultHeaders ==
    /\ cors_pc = "handling"
    /\ LET out == IPythonHandler_set_default_headers(settings_headers, allow_origin,
                      allow_origin_pat, allow_credentials, request_headers,
                      response_headers, rejects)
       IN  /\ response_headers' = out.headers
           /\ cors_pc' = IF out.raised THEN "raised" ELSE "done"
    \* headers["X-Frame-Options"] = ... writes into the configured dict
    /\ settings_headers' =
          IF settings_headers.configured
          THEN [settings_headers EXCEPT !.map = DefaultHeaders(settings_headers)]
          ELSE settings_headers
    /\ UNCHANGED <<allow_origin, allow_origin_pat, allow_credentials, rejects,
                   request_headers>>
    /\ UNCHANGED nonCors

CorsFinish ==
    /\ cors_pc \in {"done", "raised"}
    /\ cors_pc' = "idle"
    /\ UNCHANGED <<settings_headers, allow_origin, allow_origin_pat, allow_credentials,
                   rejects, request_headers, response_headers>>
    /\ UNCHANGED nonCors

CorsNext ==
    \/ \E headers \in RequestHeaderSets : CorsRequest(headers)
    \/ SetDefaultHeaders
    \/ CorsFinish

(***************************************************************************)
(* json_errors                                                             *)
(***************************************************************************)
MaxLog == 2

StatusCodes == {400, 403, 404, 500}

LogMessages == { None, <<"m">>, <<"n", "o">> }

ReturnValues == { None, <<"v">>, <<"w">> }

ExceptionNames == { "ValueError", "KeyError", "IOError" }

NoOutcome ==
    [kind |-> "none", value |-> None, status_code |-> 0, log_message |-> None,
     name |-> "none"]

\* what a wrapped method may do
Outcomes ==
    {[NoOutcome EXCEPT !.kind = "return", !.value = v] : v \in ReturnValues}
        \cup {[NoOutcome EXCEPT !.kind = "HTTPError", !.status_code = c, !.log_message = m] :
                 c \in StatusCodes, m \in LogMessages}
        \cup {[NoOutcome EXCEPT !.kind = "Exception", !.name = n] : n \in ExceptionNames}

\* json.dumps of a dict of strings: the object, None written as null
json_dumps(d) == [k \in DOMAIN d |-> IF d[k] = None THEN <<"null">> ELSE d[k]]

unknown_server_error == <<"Unknown server error">>

\* ''.join(traceback.format_exception(t, value, tb))
format_exception(name) == <<"Traceback (most recent call last):", name>>

FreshResponse ==
    [status |-> 200, status_set |-> 0, finished |-> 0, body |-> << >>,
     returned |-> None, logged |-> << >>]

\* wrapper that answers every HTTPError with status 500
json_errors_wrapper_status_500(outcome, response) ==
    IF outcome.kind = "HTTPError"
    THEN [response EXCEPT
            !.logged = Append(@, <<"warn", outcome.log_message>>),
            !.status = 500,
            !.status_set = @ + 1,
            !.finished = @ + 1,
            !.body = Append(@, json_dumps([message |-> outcome.log_message]))]
    ELSE IF outcome.kind = "Exception"
    THEN [response EXCEPT
            !.logged = Append(@, <<"error", <<"Unhandled error in API request">> >>),
            !.status = 500,
            !.status_set = @ + 1,
            !.finished = @ + 1,
            !.body = Append(@, json_dumps([message |-> unknown_server_error,
                                            traceback |-> format_exception(outcome.name)]))]
    ELSE [response EXCEPT !.returned = outcome.value]

\* wrapper of json_errors applied to a method with the given outcome
json_errors_wrapper(outcome, response) ==
    IF outcome.kind = "HTTPError"
    THEN [response EXCEPT
            !.logged = Append(@, <<"warn", outcome.log_message>>),
            !.status = outcome.status_code,
            !.status_set = @ + 1,
            !.finished = @ + 1,
            !.body = Append(@, json_dumps([message |-> outcome.log_message]))]
    ELSE IF outcome.kind = "Exception"
    THEN [response EXCEPT
            !.logged = Append(@, <<"error", <<"Unhandled error in API request">> >>),
            !.status = 500,
            !.status_set = @ + 1,
            !.finished = @ + 1,
            !.body = Append(@, json_dumps([message |-> unknown_server_error,
                                            traceback |-> format_exception(outcome.name)]))]
    ELSE [response EXCEPT !.returned = outcome.value]

JsonInit ==
    /\ je_outcome = NoOutcome
    /\ je_status = 200
    /\ je_status_set = 0
    /\ je_finished = 0
    /\ je_body = << >>
    /\ je_returned = None
    /\ je_log = << >>
    /\ je_pc = "idle"

JsonOff == JsonInit

\* a request reaches a decorated method of a fresh handler
JsonRequest(outcome) ==
    /\ je_pc = "idle"
    /\ Len(je_log) < MaxLog
    /\ je_outcome' = outcome
    /\ je_status' = 200
    /\ je_status_set' = 0
    /\ je_finished' = 0
    /\ je_body' = << >>
    /\ je_returned' = None
    /\ je_pc' = "calling"
    /\ UNCHANGED je_log
    /\ UNCHANGED nonJson

JsonWrapper ==
    /\ je_pc = "calling"
    /\ LET out == json_errors_wrapper(je_outcome,
                      [FreshResponse EXCEPT !.status = je_status,
                                            !.status_set = je_status_set,
                                            !.finished = je_finished,
                                            !.body = je_body])
       IN  /\ je_status' = out.status
           /\ je_status_set' = out.status_set
           /\ je_finished' = out.finished
           /\ je_body' = out.body
           /\ je_returned' = out.returned
           /\ je_log' = je_log \o out.logged
    /\ je_pc' = "done"
    /\ UNCHANGED je_outcome
    /\ UNCHANGED nonJson

JsonFinish ==
    /\ je_pc = "done"
    /\ je_pc' = "idle"
    /\ UNCHANGED <<je_outcome, je_status, je_status_set, je_finished, je_body,
                   je_returned, je_log>>
    /\ UNCHANGED nonJson

JsonNext ==
    \/ \E outcome \in Outcomes : JsonRequest(outcome)
    \/ JsonWrapper
    \/ JsonFinish

(***************************************************************************)
(* IPythonHandler.write_error                                              *)
(***************************************************************************)
\* http.client.responses
responses == (403 :> <<"Forbidden">>) @@ (404 :> <<"Not Found">>)
                 @@ (500 :> <<"Internal Server Error">>)

ErrorCodes == {403, 404, 500, 599}

\* '%s.html' % status_code
CodeTemplate(code) ==
    CASE code = 403 -> "403.html"
      [] code = 404 -> "404.html"
      [] code = 500 -> "500.html"
      [] OTHER -> "599.html"

TemplateNotFound == "TemplateNotFound"
UnboundLocalError == "UnboundLocalError"
FormatError == <<"TypeError">>

RECURSIVE Placeholders(_)
Placeholders(tokens) ==
    IF tokens = << >> THEN 0
    ELSE (IF Head(tokens) = "%s" THEN 1 ELSE 0) + Placeholders(Tail(tokens))

RECURSIVE Substitute(_, _)
Substitute(tokens, args) ==
    IF tokens = << >> THEN << >>
    ELSE IF Head(tokens) = "%s"
         THEN <<Head(args)>> \o Substitute(Tail(tokens), Tail(args))
         ELSE <<Head(tokens)>> \o Substitute(Tail(tokens), args)

\* exception.log_message % exception.args; a failure is FormatError
FormatMessage(exception) ==
    IF ~exception.has_log_message \/ exception.log_message = None THEN FormatError
    ELSE IF Placeholders(exception.log_message) # Len(exception.args) THEN FormatError
    ELSE Substitute(exception.log_message, exception.args)

NoException ==
    [type |-> "none", has_log_message |-> FALSE, log_message |-> None,
     args |-> << >>, reason |-> None]

\* web.HTTPError instances, and exceptions without log_message or reason
Exceptions ==
    {[NoException EXCEPT !.type = "HTTPError", !.has_log_message = TRUE,
                         !.log_message = m, !.args = a, !.reason = r] :
        m \in {None, <<"gone">>, <<"no", "%s">>}, a \in {<< >>, <<"x">>},
        r \in {None, <<"Custom">>}}
        \cup {[NoException EXCEPT !.type = "ValueError", !.args = <<"x">>]}

\* kwargs.get('exc_info'): absent, or a (type, value, traceback) triple
ExcInfos ==
    {[present |-> FALSE, exception |-> NoException]}
        \cup {[present |-> TRUE, exception |-> e] : e \in Exceptions}

error_html == "error.html"

\* render_template: the page the template renders from ns; found is FALSE when
\* get_template raises TemplateNotFound
render_template(templates, name, ns) ==
    [found |-> name \in templates, template |-> name, ns |-> ns]

\* write_error: the exception it raises, the headers it sets and what it writes
write_error(templates, status_code, exc_info, cookie_value, pw, headers) ==
    IF ~exc_info.present
    THEN \* ns reads `exception`, which was never assigned
         [raised |-> UnboundLocalError, headers |-> headers, written |-> << >>]
    ELSE LET exception == exc_info.exception
             formatted == FormatMessage(exception)
             message   == IF formatted = FormatError THEN Empty ELSE formatted
             reason    == IF exception.reason = None THEN Empty ELSE exception.reason
             standard  == IF status_code \in DOMAIN responses THEN responses[status_code]
                          ELSE <<"Unknown HTTP Error">>
             status_message == IF Truthy(reason) THEN reason ELSE standard
             ns == [status_code |-> status_code, status_message |-> status_message,
                    message |-> message, exception |-> exception]
             h1 == SetHeader(headers, "Content-Type", <<"text/html">>)
             \* template_namespace reads logged_in, which may clear the login cookie
             h2 == IF get_current_user(cookie_value, pw).clear
                   THEN SetHeader(h1, "Set-Cookie", <<"expired">>) ELSE h1
             first == render_template(templates, CodeTemplate(status_code), ns)
         IN  IF first.found
             THEN [raised |-> "none", headers |-> h2, written |-> <<first>>]
             ELSE LET second == render_template(templates, error_html, ns)
                  IN  IF second.found
                      THEN [raised |-> "none", headers |-> h2, written |-> <<second>>]
                      ELSE [raised |-> TemplateNotFound, headers |-> h2, written |-> << >>]

ErrorInit ==
    /\ we_templates \in {t \cup {error_html} : t \in SUBSET {"404.html", "500.html"}}
    /\ we_password \in Passwords
    /\ we_cookie \in {None, <<"u", "1">>}
    /\ we_status_code = 0
    /\ we_exc_info = [present |-> FALSE, exception |-> NoException]
    /\ we_headers = NoHeaders
    /\ we_written = << >>
    /\ we_raised = "none"
    /\ we_pc = "idle"

ErrorOff ==
    /\ we_templates = {error_html}
    /\ we_password = Empty
    /\ we_cookie = None
    /\ we_status_code = 0
    /\ we_exc_info = [present |-> FALSE, exception |-> NoException]
    /\ we_headers = NoHeaders
    /\ we_written = << >>
    /\ we_raised = "none"
    /\ we_pc = "idle"

\* send_error clears the response and calls write_error(status_code, **kwargs)
SendError(code, exc_info) ==
    /\ we_pc = "idle"
    /\ we_status_code' = code
    /\ we_exc_info' = exc_info
    /\ we_headers' = NoHeaders
    /\ we_written' = << >>
    /\ we_raised' = "none"
    /\ we_pc' = "write_error"
    /\ UNCHANGED <<we_templates, we_cookie, we_password>>
    /\ UNCHANGED nonError

WriteError ==
    /\ we_pc = "write_error"
    /\ LET out == write_error(we_templates, we_status_code, we_exc_info, we_cookie,
                              we_password, we_headers)
       IN  /\ we_raised' = out.raised
           /\ we_headers' = out.headers
           /\ we_written' = out.written
    /\ we_pc' = "done"
    /\ UNCHANGED <<we_templates, we_cookie, we_password, we_status_code, we_exc_info>>
    /\ UNCHANGED nonError

ErrorFinish ==
    /\ we_pc = "done"
    /\ we_pc' = "idle"
    /\ UNCHANGED <<we_templates, we_cookie, we_password, we_status_code, we_exc_info,
                   we_headers, we_written, we_raised>>
    /\ UNCHANGED nonError

ErrorNext ==
    \/ \E code \in ErrorCodes, exc_info \in ExcInfos : SendError(code, exc_info)
    \/ WriteError
    \/ ErrorFinish

(***************************************************************************)
(* FilesRedirectHandler                                                    *)
(***************************************************************************)
files_segment == <<"f", "i", "l", "e", "s">>

\* files the contents manager may hold
RedirectFiles ==
    { <<"n">>,
      files_segment,
      <<"a", "/">> \o files_segment,
      files_segment \o <<"/", "n">>,
      <<"a", "/", "n">> }

\* paths clients request
RedirectPaths == RedirectFiles \cup { <<"a">>, <<"d">>, Empty, <<"a", "/">> \o files_segment \o <<"/", "n">> }

FullPath(name, path) == IF path = Empty THEN name ELSE path \o <<sep>> \o name

\* contents_manager.file_exists(name, path)
file_exists(files, name, path) == FullPath(name, path) \in files

\* contents_manager.path_exists(path): the root, a directory, or a parent of a file
path_exists(files, dirs, path) ==
    \/ path = Empty
    \/ path \in dirs
    \/ \E f \in files : StartsWith(f, path \o <<sep>>)

\* no name is both a file and a directory
ConsistentStore(files, dirs) ==
    \A f \in files : ~path_exists(files, dirs, f) \/ f = Empty

\* parts[:-1]
AllButLast(parts) == IF parts = << >> THEN << >> ELSE SubSeq(parts, 1, Len(parts) - 1)

\* parts.remove('files'): the first occurrence goes
RemoveFiles(parts) == RemoveAt(parts, IndexOf(parts, files_segment))

NoRedirect == [kind |-> "none", path |-> Empty, name |-> Empty, warned |-> FALSE]

\* FilesRedirectHandler.get: the arguments of url_path_join, or the 404
FilesRedirectHandler_get(files, dirs, path) ==
    IF path_exists(files, dirs, path)
    THEN [NoRedirect EXCEPT !.kind = "tree", !.path = path]
    ELSE LET parts == Split(path, sep)
             path1 == Join(AllButLast(parts), sep)
             name  == parts[Len(parts)]
             strip == ~file_exists(files, name, path1) /\ Contains(parts, files_segment)
             path2 == IF strip THEN Join(AllButLast(RemoveFiles(parts)), sep) ELSE path1
         IN  IF ~file_exists(files, name, path2)
             THEN [NoRedirect EXCEPT !.kind = "404", !.warned = strip]
             ELSE [kind |-> "files", path |-> path2, name |-> name, warned |-> strip]

RedirectInit ==
    /\ cm_files \in SUBSET RedirectFiles
    /\ cm_dirs \in SUBSET { <<"d">> }
    /\ ConsistentStore(cm_files, cm_dirs)
    /\ fr_path = Empty
    /\ fr_result = NoRedirect
    /\ fr_warnings = {}
    /\ fr_pc = "idle"

RedirectOff ==
    /\ cm_files = {}
    /\ cm_dirs = {}
    /\ fr_path = Empty
    /\ fr_result = NoRedirect
    /\ fr_warnings = {}
    /\ fr_pc = "idle"

RedirectRequest(path) ==
    /\ fr_pc = "idle"
    /\ fr_path' = path
    /\ fr_result' = NoRedirect
    /\ fr_pc' = "get"
    /\ UNCHANGED <<cm_files, cm_dirs, fr_warnings>>
    /\ UNCHANGED nonRedirect

RedirectGet ==
    /\ fr_pc = "get"
    /\ fr_result' = FilesRedirectHandler_get(cm_files, cm_dirs, fr_path)
    /\ fr_warnings' = IF fr_result'.warned THEN {fr_path} ELSE {}
    /\ fr_pc' = "done"
    /\ UNCHANGED <<cm_files, cm_dirs, fr_path>>
    /\ UNCHANGED nonRedirect

RedirectFinish ==
    /\ fr_pc = "done"
    /\ fr_pc' = "idle"
    /\ UNCHANGED <<cm_files, cm_dirs, fr_path, fr_result, fr_warnings>>
    /\ UNCHANGED nonRedirect

RedirectNext ==
    \/ \E path \in RedirectPaths : RedirectRequest(path)
    \/ RedirectGet
    \/ RedirectFinish

(***************************************************************************)
(* TrailingSlashHandler                                                    *)
(***************************************************************************)
MaxHops == 2

SlashPaths ==
    { <<"/", "a", "/">>, <<"/", "a", "/", "/">>, <<"/", "a", "/", "b", "/">>,
      <<"/", "b", "/">> }

Queries == { <<"x">>, <<"x", "/">>, <<"/">>, <<"x", "/", "/">> }

\* request.path: the URI up to its query string
PathOf(uri) ==
    IF IndexOf(uri, "?") = 0 THEN uri ELSE SubSeq(uri, 1, IndexOf(uri, "?") - 1)

\* default_handlers routes a request to TrailingSlashHandler when r".*/" matches its path
MatchesTrailingSlash(uri) == EndsWith(PathOf(uri), <<sep>>)

\* TrailingSlashHandler.get: the argument of self.redirect
TrailingSlashHandler_get(uri) == RStrip(uri, sep)

SlashInit ==
    /\ ts_uri = Empty
    /\ ts_location = Empty
    /\ ts_hops = 0
    /\ ts_pc = "idle"

SlashOff == SlashInit

\* a client requests a URL that the router hands to TrailingSlashHandler
SlashRequest(uri) ==
    /\ ts_pc = "idle"
    /\ MatchesTrailingSlash(uri)
    /\ ts_uri' = uri
    /\ ts_location' = Empty
    /\ ts_hops' = 0
    /\ ts_pc' = "routed"
    /\ UNCHANGED nonSlash

SlashGet ==
    /\ ts_pc = "routed"
    /\ ts_location' = TrailingSlashHandler_get(ts_uri)
    /\ ts_pc' = "redirected"
    /\ UNCHANGED <<ts_uri, ts_hops>>
    /\ UNCHANGED nonSlash

\* the client follows the redirect, and the router decides again
SlashFollow ==
    /\ ts_pc = "redirected"
    /\ ts_hops < MaxHops
    /\ ts_uri' = ts_location
    /\ ts_location' = Empty
    /\ ts_hops' = ts_hops + 1
    /\ ts_pc' = IF MatchesTrailingSlash(ts_location) THEN "routed" ELSE "elsewhere"
    /\ UNCHANGED nonSlash

SlashFinish ==
    /\ ts_pc \in {"redirected", "elsewhere"}
    /\ ts_pc' = "idle"
    /\ UNCHANGED <<ts_uri, ts_location, ts_hops>>
    /\ UNCHANGED nonSlash

SlashNext ==
    \/ \E uri \in SlashPaths \cup {p \o <<"?">> \o q : p \in SlashPaths, q \in Queries} :
          SlashRequest(uri)
    \/ SlashGet
    \/ SlashFollow
    \/ SlashFinish

(***************************************************************************)
(* Specifications                                                          *)
(***************************************************************************)
InitStatic ==
    StaticInit /\ AuthOff /\ ContentsOff /\ CorsOff
      /\ JsonOff /\ ErrorOff /\ RedirectOff /\ SlashOff

SpecStatic == InitStatic /\ [][StaticNext]_vars

InitAuth ==
    StaticOff /\ AuthInit /\ ContentsOff /\ CorsOff
      /\ JsonOff /\ ErrorOff /\ RedirectOff /\ SlashOff

SpecAuth == InitAuth /\ [][AuthNext]_vars

InitContents ==
    StaticOff /\ AuthOff /\ ContentsInit /\ CorsOff
      /\ JsonOff /\ ErrorOff /\ RedirectOff /\ SlashOff

SpecContents == InitContents /\ [][ContentsNext]_vars

InitCors ==
    StaticOff /\ AuthOff /\ ContentsOff /\ CorsInit
      /\ JsonOff /\ ErrorOff /\ RedirectOff /\ SlashOff

SpecCors == InitCors /\ [][CorsNext]_vars

InitJson ==
    StaticOff /\ AuthOff /\ ContentsOff /\ CorsOff
      /\ JsonInit /\ ErrorOff /\ RedirectOff /\ SlashOff

SpecJson == InitJson /\ [][JsonNext]_vars

InitError ==
    StaticOff /\ AuthOff /\ ContentsOff /\ CorsOff
      /\ JsonOff /\ ErrorInit /\ RedirectOff /\ SlashOff

SpecError == InitError /\ [][ErrorNext]_vars

InitRedirect ==
    StaticOff /\ AuthOff /\ ContentsOff /\ CorsOff
      /\ JsonOff /\ ErrorOff /\ RedirectInit /\ SlashOff

SpecRedirect == InitRedirect /\ [][RedirectNext]_vars

InitSlash ==
    StaticOff /\ AuthOff /\ ContentsOff /\ CorsOff
      /\ JsonOff /\ ErrorOff /\ RedirectOff /\ SlashInit

SpecSlash == InitSlash /\ [][SlashNext]_vars

(***************************************************************************)
(* Claims about FileFindHandler                                            *)
(***************************************************************************)
\* C1: filefind runs at most once per requested path whatever its outcome, and
\* once a call for a path has returned the cache holds an entry for that path.
C1_SearchedAtMostOnce ==
    \A p \in Requests :
        /\ searches[p] <= 1
        /\ p \in completed => p \in DOMAIN static_paths

\* C2: validate_absolute_path lets a path through only if it is non-empty and,
\* with a separator appended, starts with one of the handler's roots; the
\* NotFound sentinel gets 404.
C2_ServedOnlyInsideRoots ==
    \A c \in Callers :
        pc[c] = "done" =>
            /\ absolute_path[c] = NotFound => result[c].status = 404
            /\ result[c].status = 200 =>
                  /\ result[c].path # Empty
                  /\ \E i \in 1..Len(root[req[c].handler]) :
                        StartsWith(result[c].path \o <<sep>>, root[req[c].handler][i])

\* C10: every get_absolute_path call returns what an uncached search of the
\* path in the caller's own roots returns.
C10_CacheAgreesWithSearch ==
    \A c \in Callers :
        pc[c] \in {"validate", "done"} =>
            LET found == filefind(req[c].path, root[req[c].handler])
            IN  absolute_path[c] = IF found = IOError THEN NotFound ELSE abspath(found)

(***************************************************************************)
(* Claims about the other handlers                                         *)
(***************************************************************************)
\* C3: an authenticated GET of a path with a hidden component ends in a 404
\* with no file content written.
C3_HiddenPathsGet404 ==
    (cf_pc = "done" /\ cf_status # 302 /\ is_hidden(cf_path)) =>
        (cf_status = 404 /\ cf_body = << >>)

\* C4 as stated: with an exact allow_origin the response carries it; otherwise,
\* with a pattern, the response carries Access-Control-Allow-Origin only when the
\* request origin is present and matches, with the origin as value, and carries
\* none when the origin is absent or does not match.
C4_OriginHeaderOnlyOnMatch ==
    cors_pc = "done" =>
        LET origin == get_origin(request_headers)
            hit    == origin # None /\ match(allow_origin_pat, origin)
        IN  /\ Truthy(allow_origin) =>
                  /\ ACAO \in DOMAIN response_headers
                  /\ response_headers[ACAO] = allow_origin
            /\ (~Truthy(allow_origin) /\ allow_origin_pat.configured) =>
                  /\ ACAO \in DOMAIN response_headers =>
                        (hit /\ response_headers[ACAO] = origin)
                  /\ ~hit => ACAO \notin DOMAIN response_headers

\* C4 as amended: with an exact allow_origin the response carries it; otherwise,
\* with a pattern, a present, non-empty and matching request origin is echoed, and
\* in every other case the response carries the header only if the configured
\* headers dict supplies it, with the configured value.
C4_OriginHeaderOnlyOnMatchOrConfigured ==
    cors_pc = "done" =>
        LET origin == get_origin(request_headers)
            hit    == origin # None /\ origin # Empty /\ match(allow_origin_pat, origin)
        IN  /\ Truthy(allow_origin) =>
                  /\ ACAO \in DOMAIN response_headers
                  /\ response_headers[ACAO] = allow_origin
            /\ (~Truthy(allow_origin) /\ allow_origin_pat.configured) =>
                  /\ hit => /\ ACAO \in DOMAIN response_headers
                            /\ response_headers[ACAO] = origin
                  /\ (~hit /\ ACAO \in DOMAIN response_headers) =>
                        /\ settings_headers.configured
                        /\ ACAO \in DOMAIN settings_headers.map
                        /\ response_headers[ACAO] = settings_headers.map[ACAO]

\* a request whose origin does not match the pattern was answered
C4_Witness ==
    /\ cors_pc = "done"
    /\ ~Truthy(allow_origin)
    /\ allow_origin_pat.configured
    /\ get_origin(request_headers) = <<"e">>
    /\ ~match(allow_origin_pat, <<"e">>)
    /\ ACAO \notin DOMAIN response_headers

\* C6: get_current_user never returns an empty string; without a cookie it
\* returns 'anonymous' when no password is configured, and clears the login
\* cookie and returns None when one is; logged_in is false in both cases.
C6_NeverEmptyUser ==
    auth_pc = "done" =>
        /\ user # Empty
        /\ (cookie_read = None /\ ~login_available(password)) =>
              (user = anonymous /\ ~logged_in(user))
        /\ (cookie_read = None /\ login_available(password)) =>
              /\ cleared
              /\ jar[cookie_name(auth_host, cookie_name_setting)] = NoCookie
              /\ user = None
              /\ ~logged_in(user)

\* a request without a valid cookie was answered by a server with a password
C6_Witness ==
    /\ auth_pc = "done"
    /\ cookie_read = None
    /\ login_available(password)
    /\ cleared
    /\ user = None

\* C5: an HTTP error raised by the wrapped method sets its status and finishes
\* the response once with {"message": M}; any other exception gives 500 and one
\* finish with the "Unknown server error" message and a non-empty traceback;
\* without an exception the result is returned and the response is untouched.
C5_JsonErrorEnvelope ==
    je_pc = "done" =>
        /\ je_outcome.kind = "HTTPError" =>
              /\ je_status = je_outcome.status_code
              /\ je_finished = 1
              /\ je_body = << json_dumps([message |-> je_outcome.log_message]) >>
        /\ je_outcome.kind = "Exception" =>
              /\ je_status = 500
              /\ je_finished = 1
              /\ Len(je_body) = 1
              /\ DOMAIN je_body[1] = {"message", "traceback"}
              /\ je_body[1].message = unknown_server_error
              /\ je_body[1].traceback # Empty
        /\ je_outcome.kind = "return" =>
              /\ je_returned = je_outcome.value
              /\ je_status_set = 0
              /\ je_finished = 0
              /\ je_body = << >>

\* a method that raised HTTPError(404, 'no') was answered
C5_Witness ==
    /\ je_pc = "done"
    /\ je_outcome.kind = "HTTPError"
    /\ je_outcome.status_code = 404
    /\ je_outcome.log_message = <<"n", "o">>
    /\ je_status = 404
    /\ je_finished = 1

\* C7: every write_error call, with or without exc_info, sets Content-Type to
\* text/html and writes exactly one page, rendered from '<status_code>.html' when
\* that template exists and from 'error.html' when not, from the namespace
\* {status_code, status_message, message, exception}; a message that cannot be
\* formatted is left empty.
C7_ErrorPageWritten ==
    we_pc = "done" =>
        /\ we_raised = "none"
        /\ "Content-Type" \in DOMAIN we_headers
        /\ we_headers["Content-Type"] = <<"text/html">>
        /\ Len(we_written) = 1
        /\ we_written[1].template =
              (IF CodeTemplate(we_status_code) \in we_templates
               THEN CodeTemplate(we_status_code) ELSE error_html)
        /\ DOMAIN we_written[1].ns = {"status_code", "status_message", "message", "exception"}
        /\ we_written[1].ns.status_code = we_status_code
        /\ (we_exc_info.present /\ FormatMessage(we_exc_info.exception) = FormatError) =>
              we_written[1].ns.message = Empty

\* the (parent path, name) pair that a path names
PairOf(parts) == [path |-> Join(AllButLast(parts), sep), name |-> parts[Len(parts)]]

\* C8: for a path that is no directory, get redirects to the /files/ URL of the
\* path when the file exists there; otherwise, when the path has a 'files'
\* segment and the file exists at the path without it, to the /files/ URL of the
\* stripped path; otherwise it fails with 404.
C8_RedirectsToExistingFile ==
    (fr_pc = "done" /\ ~path_exists(cm_files, cm_dirs, fr_path)) =>
        LET parts    == Split(fr_path, sep)
            stripped == RemoveFiles(parts)
            literal  == PairOf(parts)
        IN  IF file_exists(cm_files, literal.name, literal.path)
            THEN /\ fr_result.kind = "files"
                 /\ fr_result.path = literal.path
                 /\ fr_result.name = literal.name
            ELSE IF /\ Contains(parts, files_segment)
                    /\ stripped # << >>
                    /\ file_exists(cm_files, PairOf(stripped).name, PairOf(stripped).path)
            THEN /\ fr_result.kind = "files"
                 /\ fr_result.path = PairOf(stripped).path
                 /\ fr_result.name = PairOf(stripped).name
            ELSE fr_result.kind = "404"

\* C9: the redirect of TrailingSlashHandler goes to the request path with its
\* trailing slashes stripped, which no longer matches the trailing-slash pattern
\* and differs from the requested URL, with or without a query string.
C9_RedirectStripsSlashes ==
    ts_pc = "redirected" =>
        /\ PathOf(ts_location) = RStrip(PathOf(ts_uri), sep)
        /\ ~MatchesTrailingSlash(ts_location)
        /\ ts_location # ts_uri

====
